---- MODULE Spec2Model ----
(***************************************************************************)
(* A model of NVLL/distribution/vmf_hypvae.py: the von Mises-Fisher latent *)
(* layer (VmfDiff) and the scaled Bessel function with custom gradient     *)
(* (BesselIve).                                                            *)
(*                                                                         *)
(* Numbers.  A tensor element or numpy scalar is a pair <<tag, v>>: a      *)
(* finite value is <<"fin", v>> with v the value in fixed point (v / Scale)*)
(* and the IEEE specials are <<"nan", 0>>, <<"inf", 1>> and <<"inf", -1>>. *)
(* numpy and torch arithmetic never raises on a zero divisor or on log(0): *)
(* it returns inf or nan, which is what FDiv and FLog do.  Rounding is     *)
(* toward zero, and zero carries no sign.                                  *)
(***************************************************************************)
EXTENDS Integers, Sequences, FiniteSets, TLC

\* The number of fractional bits of the fixed-point representation.
FracBits == 10

\* One unit of the fixed-point representation: the value 1.0.
Scale == 2 ^ FracBits

\* ------------------------------------------------------------------------
\* Integer helpers
\* ------------------------------------------------------------------------
Abs(n) == IF n < 0 THEN -n ELSE n

Sgn(n) == IF n > 0 THEN 1 ELSE IF n < 0 THEN -1 ELSE 0

\* Quotient rounded toward zero (the divisor is not zero).  The arithmetic
\* below is written as functions where an argument is used more than once:
\* a function is applied to the value of its argument.
QuotFn[a \in Int, b \in Int] == Sgn(a) * Sgn(b) * (Abs(a) \div Abs(b))

Quot(a, b) == QuotFn[a, b]

\* Fixed-point product and quotient of two finite values.
MulQ(a, b) == Quot(a * b, Scale)

DivQ(a, b) == Quot(a * Scale, b)

\* Integer square root: the largest r with r * r <= n, for n >= 0.
RECURSIVE ISqrtIter(_, _, _)
ISqrtIter(n, lo, hi) ==
    IF lo >= hi THEN lo
    ELSE LET mid == (lo + hi + 1) \div 2
         IN  IF mid * mid <= n THEN ISqrtIter(n, mid, hi)
                               ELSE ISqrtIter(n, lo, mid - 1)

ISqrt(n) == ISqrtIter(n, 0, 46340)

\* Square root of a finite fixed-point value v >= 0.
SqrtQ(v) == ISqrt(v * Scale)

\* ln 2 in fixed point.
Ln2Q == (Scale * 693147) \div 1000000

\* 2 * atanh(t) = ln((1 + t) / (1 - t)) by its series, for 0 <= t <= 1/3.
PowerQ[t \in Int, n \in Nat] == IF n = 0 THEN Scale ELSE MulQ(t, PowerQ[t, n - 1])

AtanhSeriesQ(t) ==
    2 * (PowerQ[t, 1] + PowerQ[t, 3] \div 3 + PowerQ[t, 5] \div 5
           + PowerQ[t, 7] \div 7 + PowerQ[t, 9] \div 9)

\* Natural logarithm of a finite fixed-point value v > 0: v is brought into
\* [1, 2) by halving or doubling, each step worth ln 2.
LnFn[v \in Int] ==
    IF v >= 2 * Scale THEN LnFn[v \div 2] + Ln2Q
    ELSE IF v < Scale THEN LnFn[2 * v] - Ln2Q
    ELSE AtanhSeriesQ(DivQ(v - Scale, v + Scale))

LnQ(v) == LnFn[v]

\* exp(a) for a finite fixed-point a >= 0, by its series.
RECURSIVE ExpSeriesQ(_, _, _)
ExpSeriesQ(a, term, n) ==
    IF term = 0 THEN 0
    ELSE term + ExpSeriesQ(a, MulQ(term, a) \div n, n + 1)

ExpQ(a) ==
    IF a >= 0 THEN ExpSeriesQ(a, Scale, 1)
    ELSE Quot(Scale * Scale, ExpSeriesQ(-a, Scale, 1))

\* ------------------------------------------------------------------------
\* IEEE-style values
\* ------------------------------------------------------------------------
Value == {"fin", "nan", "inf", "none"} \X Int

Fin(v) == <<"fin", v>>

NaN == <<"nan", 0>>

Inf(s) == <<"inf", s>>

IsFin(a) == a[1] = "fin"

IsNaN(a) == a[1] = "nan"

IsInf(a) == a[1] = "inf"

IsZero(a) == IsFin(a) /\ a[2] = 0

\* The sign of a value that is not nan.
SignOf(a) == IF IsInf(a) THEN a[2] ELSE Sgn(a[2])

FNegFn[a \in Value] == IF IsNaN(a) THEN NaN ELSE <<a[1], -a[2]>>

FNeg(a) == FNegFn[a]

FAddFn[a \in Value, b \in Value] ==
    IF IsNaN(a) \/ IsNaN(b) THEN NaN
    ELSE IF IsInf(a) THEN (IF IsInf(b) /\ b[2] # a[2] THEN NaN ELSE a)
    ELSE IF IsInf(b) THEN b
    ELSE Fin(a[2] + b[2])

FAdd(a, b) == FAddFn[a, b]

FSub(a, b) == FAdd(a, FNeg(b))

FMulFn[a \in Value, b \in Value] ==
    IF IsNaN(a) \/ IsNaN(b) THEN NaN
    ELSE IF IsInf(a) \/ IsInf(b)
         THEN (IF IsZero(a) \/ IsZero(b) THEN NaN ELSE Inf(SignOf(a) * SignOf(b)))
    ELSE Fin(MulQ(a[2], b[2]))

FMul(a, b) == FMulFn[a, b]

FDivFn[a \in Value, b \in Value] ==
    IF IsNaN(a) \/ IsNaN(b) THEN NaN
    ELSE IF IsInf(a)
         THEN (IF IsInf(b) THEN NaN
               ELSE Inf(a[2] * (IF b[2] < 0 THEN -1 ELSE 1)))
    ELSE IF IsInf(b) THEN Fin(0)
    ELSE IF b[2] = 0
         THEN (IF a[2] = 0 THEN NaN ELSE Inf(Sgn(a[2])))
    ELSE Fin(DivQ(a[2], b[2]))

FDiv(a, b) == FDivFn[a, b]

FLogFn[a \in Value] ==
    IF IsNaN(a) THEN NaN
    ELSE IF IsInf(a) THEN (IF a[2] > 0 THEN a ELSE NaN)
    ELSE IF a[2] < 0 THEN NaN
    ELSE IF a[2] = 0 THEN Inf(-1)
    ELSE Fin(LnQ(a[2]))

FLog(a) == FLogFn[a]

FSqrtFn[a \in Value] ==
    IF IsNaN(a) THEN NaN
    ELSE IF IsInf(a) THEN (IF a[2] > 0 THEN a ELSE NaN)
    ELSE IF a[2] < 0 THEN NaN
    ELSE Fin(SqrtQ(a[2]))

FSqrt(a) == FSqrtFn[a]

\* a >= b; a comparison with nan is false.
FGeFn[a \in Value, b \in Value] ==
    /\ ~IsNaN(a)
    /\ ~IsNaN(b)
    /\ IF IsInf(a) THEN (a[2] > 0 \/ (IsInf(b) /\ b[2] < 0))
       ELSE IF IsInf(b) THEN b[2] < 0
       ELSE a[2] >= b[2]

FGe(a, b) == FGeFn[a, b]

\* The value n (an integer) as a finite value.
FInt(n) == Fin(n * Scale)


\* ------------------------------------------------------------------------
\* Tensors: a vector is a sequence of values, a matrix a sequence of rows.
\* ------------------------------------------------------------------------
RECURSIVE FSum(_)
FSum(xs) == IF xs = <<>> THEN Fin(0) ELSE FAdd(xs[1], FSum(Tail(xs)))

VDot(a, b) == FSum([j \in 1..Len(a) |-> FMul(a[j], b[j])])

\* torch.norm(row, p=2)
VNorm(a) == FSqrt(VDot(a, a))

\* torch.nn.Linear applied to one row: weight @ h + bias
Linear(weight, bias, h) ==
    [i \in 1..Len(weight) |-> FAdd(VDot(weight[i], h), bias[i])]

\* torch.nn.Softplus (beta = 1, threshold = 20): log(1 + exp(a))
Softplus(a) ==
    IF a[2] > 20 * Scale THEN a
    ELSE Fin(LnQ(Scale + ExpQ(a[2])))

\* ------------------------------------------------------------------------
\* scipy.special.ive and loggamma, for orders that are multiples of 1/2
\* ------------------------------------------------------------------------
SqrtPiQ == (Scale * 17725) \div 10000

\* Gamma(m / 2) for an integer m >= 1.
RECURSIVE GammaHalfQ(_)
GammaHalfQ(m) ==
    IF m = 1 THEN SqrtPiQ
    ELSE IF m = 2 THEN Scale
    ELSE ((m - 2) * GammaHalfQ(m - 2)) \div 2

\* The series of I_v(k) from term m on, with v = v2 / 2 and h2 = (k / 2)^2:
\* term(m + 1) = term(m) * h2 / ((m + 1) * (m + 1 + v)).
RECURSIVE BesselSeriesQ(_, _, _, _)
BesselSeriesQ(term, h2, v2, m) ==
    IF term = 0 THEN 0
    ELSE term + BesselSeriesQ(Quot(2 * MulQ(term, h2), (m + 1) * (2 * m + 2 + v2)),
                              h2, v2, m + 1)

RECURSIVE PowQ(_, _)
PowQ(h, n) == IF n = 0 THEN Scale ELSE MulQ(h, PowQ(h, n - 1))

\* (k / 2)^v / Gamma(v + 1), the first term of the series, for v2 >= -1.
BesselFirstTermQ(h, v2) ==
    IF v2 = -1 THEN DivQ(Scale, MulQ(SqrtQ(h), SqrtPiQ))
    ELSE IF v2 % 2 = 0 THEN DivQ(PowQ(h, v2 \div 2), GammaHalfQ(v2 + 2))
    ELSE DivQ(MulQ(PowQ(h, v2 \div 2), SqrtQ(h)), GammaHalfQ(v2 + 2))

\* I_v(k) * exp(-k) for finite v = v2 / 2 >= -1 and finite k > 0.
IveQ(v2, k) ==
    LET h  == k \div 2
        w2 == IF v2 = -2 THEN 2 ELSE v2
    IN  DivQ(BesselSeriesQ(BesselFirstTermQ(h, w2), MulQ(h, h), w2, 0), ExpQ(k))

\* sp.ive(order, kappa) on one element.
Ive(order, kappa) == Fin(IveQ(Quot(2 * order[2], Scale), kappa[2]))

\* sp.loggamma(d / 2).real for an integer d >= 1.
LogGammaHalf(d) == Fin(LnQ(GammaHalfQ(d)))


One == Fin(Scale)

\* Python's None.
None == <<"none", 0>>

\* numpy's floating-point warnings: what a division or a logarithm flags.
FlagDiv(a, b) ==
    IF IsZero(b) /\ IsZero(a) THEN {"invalid"}
    ELSE IF IsZero(b) /\ IsFin(a) THEN {"divide"}
    ELSE {}

FlagLog(a) ==
    IF IsZero(a) THEN {"divide"}
    ELSE IF ~IsNaN(a) /\ SignOf(a) < 0 THEN {"invalid"}
    ELSE {}

FlagMul(a, b) ==
    IF (IsInf(a) /\ IsZero(b)) \/ (IsZero(a) /\ IsInf(b)) THEN {"invalid"} ELSE {}

\* ------------------------------------------------------------------------
\* BesselIve
\* ------------------------------------------------------------------------
\* forward(ctx, dim, kappa): the context saved, the output, and the call of
\* sp.ive it makes.  The output is not saved in the context.
BesselForward(dim, kappa) ==
    [ctx  |-> <<dim, kappa>>,
     out  |-> Ive(dim, kappa),
     call |-> <<dim, kappa>>]

\* bessel = BesselIve.apply
bessel(dim, kappa) == BesselForward(dim, kappa).out

\* backward(ctx, grad_output): two further forward evaluations, and the
\* gradients of (dim, kappa)
BesselBackwardUpperOrder(ctx, grad_output) ==
    LET dim   == ctx[1]
        kappa == ctx[2]
        f1    == BesselForward(FAdd(dim, One), kappa)
        f2    == BesselForward(dim, kappa)
        grad  == FMul(grad_output,
                      FAdd(f1.out, FDiv(FMul(f2.out, FSub(dim, kappa)), kappa)))
    IN  [grads |-> <<None, grad>>, calls |-> <<f1.call, f2.call>>]

BesselBackward(ctx, grad_output) ==
    LET dim   == ctx[1]
        kappa == ctx[2]
        f1    == BesselForward(FSub(dim, One), kappa)
        f2    == BesselForward(dim, kappa)
        grad  == FMul(grad_output,
                      FSub(f1.out, FDiv(FMul(f2.out, FAdd(dim, kappa)), kappa)))
    IN  [grads |-> <<None, grad>>, calls |-> <<f1.call, f2.call>>]

\* ------------------------------------------------------------------------
\* VmfDiff.__init__: the two linear layers of a module with hid_dim = 2
\* ------------------------------------------------------------------------
FuncMuWeight(d) ==
    [i \in 1..d |-> [j \in 1..2 |-> IF i = j THEN One ELSE Fin(0)]]

FuncMuBias(d) == [i \in 1..d |-> IF i = 1 THEN Fin(-Scale) ELSE Fin(0)]

FuncKappaWeight == << <<Fin(Scale \div 2), Fin(Scale \div 4)>> >>

FuncKappaBias == <<Fin(0)>>

\* ------------------------------------------------------------------------
\* VmfDiff.estimate_param
\* ------------------------------------------------------------------------
\* mu / torch.norm(mu, p=2, dim=1, keepdim=True)
NormalizeRows(m) ==
    [i \in 1..Len(m) |-> [j \in 1..Len(m[i]) |-> FDiv(m[i][j], VNorm(m[i]))]]

EstimateParam(d, latent_code) ==
    LET B      == Len(latent_code)
        kappa  == [i \in 1..B |->
                     <<Softplus(Linear(FuncKappaWeight, FuncKappaBias,
                                       latent_code[i])[1])>>]
        mu     == [i \in 1..B |->
                     Linear(FuncMuWeight(d), FuncMuBias(d), latent_code[i])]
        norm   == [i \in 1..B |-> <<VNorm(mu[i])>>]
        sqdiff == [i \in 1..B |->
                     <<FMul(FSub(norm[i][1], One), FSub(norm[i][1], One))>>]
    IN  [kappa          |-> kappa,
         norm           |-> [i \in 1..B |-> [j \in 1..d |-> One]],
         redundant_norm |-> [i \in 1..B |-> <<FSum(sqdiff[i])>>],
         mu             |-> NormalizeRows(mu)]

\* ------------------------------------------------------------------------
\* VmfDiff.compute_KLD
\* ------------------------------------------------------------------------
PiLiteral == Fin((Scale * 314159) \div 100000)

\* np.log(3.1415926) * d / 2 + np.log(2) - sp.loggamma(d / 2).real
\*   - (d / 2) * np.log(2 * 3.1415926)
KLDConst(d) ==
    FSub(FSub(FAdd(FDiv(FMul(FLog(PiLiteral), FInt(d)), FInt(2)),
                   FLog(FInt(2))),
              LogGammaHalf(d)),
         FMul(FDiv(FInt(d), FInt(2)), FLog(FMul(FInt(2), PiLiteral))))

\* The body of the loop for one k = kappa[k_idx], with d the tensor [d].
KLDCombin(k, d, const) ==
    LET half   == FDiv(d, FInt(2))
        first  == FDiv(FMul(k, bessel(half, k)), bessel(FSub(half, One), k))
        second == FSub(FMul(FSub(half, One), FLog(k)),
                       FLog(bessel(FSub(half, One), k)))
    IN  FAdd(FAdd(first, second), const)

\* The calls of sp.ive one loop body makes, in order.
KLDCalls(k, d) ==
    LET half == FDiv(d, FInt(2))
    IN  << <<half, k>>, <<FSub(half, One), k>>, <<FSub(half, One), k>> >>

\* batchsz = kappa.size()[0]: the loop's length, whatever batch_sz was passed.
KLDBatch(kappa, batch_sz) == Len(kappa)

\* k = kappa[k_idx], with k_idx counted from 0.
KLDElementFirst(kappa, k_idx) == kappa[1][1]

KLDElement(kappa, k_idx) == kappa[k_idx + 1][1]

\* ------------------------------------------------------------------------
\* VmfDiff._sample_weight
\* ------------------------------------------------------------------------
\* b = dim / (np.sqrt(4. * kappa ** 2 + dim ** 2) + 2 * kappa), dim = dim' here
SWDenominator(kappa, dim) ==
    FAdd(FSqrt(FAdd(FMul(FInt(4), FMul(kappa, kappa)), FInt(dim * dim))),
         FMul(FInt(2), kappa))

SWb(kappa, dim) == FDiv(FInt(dim), SWDenominator(kappa, dim))

\* x = (1. - b) / (1. + b)
SWxSwapped(b_) == FDiv(FAdd(One, b_), FSub(One, b_))

SWx(b_) == FDiv(FSub(One, b_), FAdd(One, b_))

\* c = kappa * x + dim * np.log(1 - x ** 2)
SWc(kappa, dim, x) ==
    FAdd(FMul(kappa, x), FMul(FInt(dim), FLog(FSub(One, FMul(x, x)))))

\* The warnings numpy issues while b, x and c are computed.
SWSetupFlags(kappa, dim) ==
    LET b == SWb(kappa, dim)
        x == SWx(b)
        a == FSub(One, FMul(x, x))
    IN  FlagDiv(FInt(dim), SWDenominator(kappa, dim))
            \cup FlagDiv(FSub(One, b), FAdd(One, b))
            \cup FlagLog(a)
            \cup FlagMul(FInt(dim), FLog(a))

\* np.random.beta(dim / 2., dim / 2.) raises ValueError unless dim / 2 > 0.
BetaRaises(dim) == dim <= 0

\* w = (1. - (1. + b) * z) / (1. - (1. - b) * z)
SWWeightSameSign(b_, z_) ==
    FDiv(FSub(One, FMul(FAdd(One, b_), z_)), FSub(One, FMul(FAdd(One, b_), z_)))

SWWeight(b_, z_) ==
    FDiv(FSub(One, FMul(FAdd(One, b_), z_)), FSub(One, FMul(FSub(One, b_), z_)))

\* kappa * w + dim * np.log(1. - x * w) - c >= np.log(u)
SWAcceptsNoLog(kappa_, dim_, x_, c_, w_, u_) ==
    FGe(FSub(FAdd(FMul(kappa_, w_),
                  FMul(FInt(dim_), FLog(FSub(One, FMul(x_, w_))))), c_),
        u_)

SWAcceptsFlipped(kappa_, dim_, x_, c_, w_, u_) ==
    FGe(FLog(u_),
        FSub(FAdd(FMul(kappa_, w_),
                  FMul(FInt(dim_), FLog(FSub(One, FMul(x_, w_))))), c_))

SWAccepts(kappa_, dim_, x_, c_, w_, u_) ==
    FGe(FSub(FAdd(FMul(kappa_, w_),
                  FMul(FInt(dim_), FLog(FSub(One, FMul(x_, w_))))), c_),
        FLog(u_))

\* ------------------------------------------------------------------------
\* VmfDiff._sample_ortho_batch, for _lat_dim >= 2 (v.squeeze() then has the
\* shape of mu, or the shape of one row of it when the batch holds one row)
\* ------------------------------------------------------------------------
\* rescale_val = torch.bmm(squeezed_mu, v).squeeze(2): one dot product a row
RescaleVal(mu, v) ==
    [i \in 1..Len(mu) |->
        <<FSum([j \in 1..Len(mu[i]) |-> FMul(mu[i][j], v[i][j][1])])>>]

\* proj_mu_v = mu * rescale_val
ProjMuV(mu, v) ==
    [i \in 1..Len(mu) |->
        [j \in 1..Len(mu[i]) |-> FMul(mu[i][j], RescaleVal(mu, v)[i][1])]]

\* ortho = v.squeeze() - proj_mu_v
Ortho(mu, v) ==
    [i \in 1..Len(mu) |->
        [j \in 1..Len(mu[i]) |-> FSub(v[i][j][1], ProjMuV(mu, v)[i][j])]]

\* y = ortho / torch.norm(ortho, p=2, dim=1, keepdim=True)
SampleOrthoBatch(mu, v) == NormalizeRows(Ortho(mu, v))

\* ------------------------------------------------------------------------
\* VmfDiff.sample_cell
\* ------------------------------------------------------------------------
\* _sample_weight_batch, line 141: the concentration passed for example b,
\* with b counted from 0
WeightBatchKappa(kappa_arr, b_) == kappa_arr[b_ + 1][1]

\* w_var = w.unsqueeze(1) * torch.ones(batch_sz, lat_dim)
WVarFirstRow(w, batch_sz, lat_dim) ==
    [i \in 1..batch_sz |-> [j \in 1..lat_dim |-> FMul(w[1], One)]]

WVar(w, batch_sz, lat_dim) ==
    [i \in 1..batch_sz |-> [j \in 1..lat_dim |-> FMul(w[i], One)]]

\* scale_factr = torch.sqrt(torch.ones(batch_sz, lat_dim) - torch.pow(w_var, 2))
ScaleFactr(w_var) ==
    [i \in 1..Len(w_var) |->
        [j \in 1..Len(w_var[i]) |->
            FSqrt(FSub(One, FMul(w_var[i][j], w_var[i][j])))]]

\* sampled_vec = v * scale_factr + mu * w_var, then unsqueeze(0)
SampledVec(mu, v, w_var) ==
    << [i \in 1..Len(mu) |->
          [j \in 1..Len(mu[i]) |->
              FAdd(FMul(v[i][j], ScaleFactr(w_var)[i][j]),
                   FMul(mu[i][j], w_var[i][j]))]] >>

\* ------------------------------------------------------------------------
\* VmfDiff.build_bow_rep
\* ------------------------------------------------------------------------
\* range(n_sample): the number of turns of the loop
RangeLenMinusOne(n_sample) == IF n_sample > 1 THEN n_sample - 1 ELSE 0

RangeLen(n_sample) == IF n_sample > 0 THEN n_sample ELSE 0

\* torch.cat(vecs, dim=0) of a non-empty list
RECURSIVE TorchCat(_)
TorchCat(vecs) ==
    IF vecs = <<>> THEN <<>> ELSE vecs[1] \o TorchCat(Tail(vecs))



\* ------------------------------------------------------------------------
\* Bounds and inputs
\* ------------------------------------------------------------------------
\* The largest latent dimensionality of a module.
MaxLatDim == 3

\* Concentrations run over the multiples of 1/2 up to MaxKappa2 / 2.
MaxKappa2 == 5

\* The draws of np.random.beta are the multiples of 1 / ZDen inside (0, 1),
\* those of np.random.uniform the multiples of 1 / UDen inside (0, 1).
ZDen == 4

UDen == 8

KappaVals == {Fin((j * Scale) \div 2) : j \in 0..MaxKappa2}

KappaPos == KappaVals \ {Fin(0)}

ZVals == {Fin((i * Scale) \div ZDen) : i \in 1..(ZDen - 1)}

UVals == {Fin((i * Scale) \div UDen) : i \in 1..(UDen - 1)}

\* The rows torch.randn draws for one example: (1/2, 0, -1, ...) and
\* (1/2, 1, -1, ...).
VDraws(d) ==
    {[j \in 1..d |-> <<IF j = 1 THEN Fin(Scale \div 2)
                       ELSE IF j = 2 THEN t ELSE Fin(-Scale)>>] : t \in {Fin(0), One}}

\* torch.randn(_batch_sz, dim, 1)
RandnDraws(batch, d) == [1..batch -> VDraws(d)]

\* Hidden rows: their projections by func_mu are (0, 0), (1, 0) and (3, 4).
HidZero == <<One, Fin(0)>>

HidAxis == <<FInt(2), Fin(0)>>

HidDiag == <<FInt(4), FInt(4)>>

LatCodes == {<<HidAxis>>, <<HidZero>>, <<HidDiag, HidAxis>>}

NSampleVals == {0, 1, 2}

\* Mean directions handed to compute_KLD directly.
MuRows(d) ==
    {[j \in 1..d |-> IF j = 1 THEN One ELSE Fin(0)],
     [j \in 1..d |-> IF j = 2 THEN One ELSE Fin(0)]}

KappaBatches == {<<<<k>>>> : k \in KappaPos}
                    \cup {<< <<k1>>, <<k2>> >> : k1 \in KappaPos, k2 \in KappaPos}

\* Orders passed to bessel: d / 2 and d / 2 - 1.
BesselOrders ==
    {FDiv(FInt(d), FInt(2)) : d \in 2..MaxLatDim}
        \cup {FSub(FDiv(FInt(d), FInt(2)), One) : d \in 2..MaxLatDim}

GradOutputs == {One, FInt(-2)}

\* ------------------------------------------------------------------------
\* State
\* ------------------------------------------------------------------------
VARIABLES
    op,           \* the entry point that was called
    pc,           \* the statement the call is at
    lat_dim,      \* self.lat_dim
    lat_code,     \* build_bow_rep: the batch of hidden rows
    n_sample,     \* build_bow_rep: the requested sample count
    batch_sz,     \* the batch_sz argument of compute_KLD
    tup,          \* the dict estimate_param returns
    const,        \* compute_KLD: const
    rt_bag,       \* compute_KLD: rt_bag
    kld,          \* what compute_KLD returned
    vecs,         \* build_bow_rep: vecs
    n,            \* build_bow_rep: the loop variable n
    mu,           \* sample_cell: mu after its normalisation
    result,       \* _sample_weight_batch: result
    b_idx,        \* _sample_weight_batch: the loop variable b
    v_draw,       \* _sample_ortho_batch: v
    ortho,        \* what _sample_ortho_batch returned
    sampled_vec,  \* sample_cell: sampled_vec, unsqueezed
    kappa,        \* _sample_weight: kappa
    dim,          \* _sample_weight: dim
    b, x, c,      \* _sample_weight: b, x, c
    z, w, u,      \* _sample_weight: the draws and the weight of this iteration
    rejected,     \* _sample_weight: an iteration of this call was rejected
    fpe,          \* the floating-point warnings numpy has issued
    bargs,        \* the arguments bessel is applied to
    ctx,          \* BesselIve: ctx.saved_tensors
    out,          \* BesselIve: the output of forward
    grad_output,  \* BesselIve: the gradient handed to backward
    ive_calls,    \* the calls of sp.ive so far, in order
    cells,        \* what the calls of sample_cell returned, in order
    ret           \* what the entry point returned or raised

vars == <<op, pc, lat_dim, lat_code, n_sample, batch_sz, tup, const, rt_bag, kld,
          vecs, n, mu, result, b_idx, v_draw, ortho, sampled_vec, kappa, dim,
          b, x, c, z, w, u, rejected, fpe, bargs, ctx, out, grad_output,
          ive_calls, cells, ret>>

bbrVars == <<lat_code, n_sample, vecs, n, cells>>

kldVars == <<const, rt_bag, kld>>

cellVars == <<mu, result, b_idx, v_draw, ortho, sampled_vec>>

swVars == <<kappa, dim, b, x, c, z, w, u, rejected>>

besselVars == <<bargs, ctx, out, grad_output>>

NoTup == [kappa |-> <<>>, norm |-> <<>>, redundant_norm |-> <<>>, mu |-> <<>>]

NoRet == [kind |-> "none", val |-> <<>>]

Returns(val) == [kind |-> "value", val |-> val]

Raises(exc) == [kind |-> "raise", val |-> exc]

\* The state of a call's locals before they are bound.
InitLocals ==
    /\ const = None /\ rt_bag = <<>> /\ kld = <<>>
    /\ vecs = <<>> /\ n = 0 /\ cells = <<>>
    /\ mu = <<>> /\ result = <<>> /\ b_idx = 0
    /\ v_draw = <<>> /\ ortho = <<>> /\ sampled_vec = <<>>
    /\ b = None /\ x = None /\ c = None
    /\ z = None /\ w = None /\ u = None
    /\ rejected = FALSE /\ fpe = {}
    /\ ctx = <<>> /\ out = None
    /\ ive_calls = <<>> /\ ret = NoRet

\* build_bow_rep(lat_code, n_sample) on a module with lat_dim = 2
InitBuildBowRep ==
    /\ op = "build_bow_rep" /\ pc = "bbr_estimate"
    /\ lat_dim = 2
    /\ lat_code \in LatCodes
    /\ n_sample \in NSampleVals
    /\ batch_sz = 0 /\ tup = NoTup
    /\ kappa = None /\ dim = -1
    /\ bargs = <<>> /\ grad_output = None

\* compute_KLD(tup, batch_sz)
InitComputeKLD ==
    /\ op = "compute_KLD" /\ pc = "kld_const"
    /\ lat_dim \in 2..MaxLatDim
    /\ lat_code = <<>> /\ n_sample = 0
    /\ \E ks \in KappaBatches, row \in MuRows(lat_dim) :
          tup = [kappa          |-> ks,
                 norm           |-> [i \in 1..Len(ks) |-> [j \in 1..lat_dim |-> One]],
                 redundant_norm |-> [i \in 1..Len(ks) |-> <<Fin(0)>>],
                 mu             |-> [i \in 1..Len(ks) |-> row]]
    /\ batch_sz \in 0..3
    /\ kappa = None /\ dim = -1
    /\ bargs = <<>> /\ grad_output = None

\* _sample_weight(kappa, dim)
InitSampleWeight ==
    /\ op = "_sample_weight" /\ pc = "sw_setup"
    /\ lat_dim \in 1..MaxLatDim
    /\ lat_code = <<>> /\ n_sample = 0
    /\ batch_sz = 0 /\ tup = NoTup
    /\ kappa \in KappaVals /\ dim = lat_dim
    /\ bargs = <<>> /\ grad_output = None

\* y = bessel(dim, kappa), then the backward pass through y
InitBessel ==
    /\ op = "bessel" /\ pc = "bessel_forward"
    /\ lat_dim = 0
    /\ lat_code = <<>> /\ n_sample = 0
    /\ batch_sz = 0 /\ tup = NoTup
    /\ kappa = None /\ dim = -1
    /\ bargs \in BesselOrders \X KappaPos
    /\ grad_output \in GradOutputs

Init ==
    /\ InitLocals
    /\ \/ InitBuildBowRep
       \/ InitComputeKLD
       \/ InitSampleWeight
       \/ InitBessel

\* ------------------------------------------------------------------------
\* BesselIve
\* ------------------------------------------------------------------------
BesselApply ==
    /\ pc = "bessel_forward"
    /\ LET f == BesselForward(bargs[1], bargs[2])
       IN  /\ ctx' = f.ctx
           /\ out' = f.out
           /\ ive_calls' = Append(ive_calls, f.call)
    /\ pc' = "bessel_backward"
    /\ UNCHANGED <<op, lat_dim, batch_sz, tup, bbrVars, kldVars, cellVars, swVars,
                   fpe, bargs, grad_output, ret>>

BesselBackwardPass ==
    /\ pc = "bessel_backward"
    /\ LET r == BesselBackward(ctx, grad_output)
       IN  /\ ive_calls' = ive_calls \o r.calls
           /\ ret' = Returns(r.grads)
    /\ pc' = "done"
    /\ UNCHANGED <<op, lat_dim, batch_sz, tup, bbrVars, kldVars, cellVars, swVars,
                   fpe, besselVars>>

\* ------------------------------------------------------------------------
\* build_bow_rep, lines 102-108: estimate_param, then compute_KLD
\* ------------------------------------------------------------------------
BuildEstimate ==
    /\ pc = "bbr_estimate"
    /\ batch_sz' = Len(lat_code)
    /\ tup' = EstimateParam(lat_dim, lat_code)
    /\ pc' = "kld_const"
    /\ UNCHANGED <<op, lat_dim, bbrVars, kldVars, cellVars, swVars, fpe,
                   besselVars, ive_calls, ret>>

\* compute_KLD, lines 76-88
KLDStart ==
    /\ pc = "kld_const"
    /\ const' = KLDConst(lat_dim)
    /\ rt_bag' = <<>>
    /\ pc' = "kld_loop"
    /\ UNCHANGED <<op, lat_dim, batch_sz, tup, kld, bbrVars, cellVars, swVars, fpe,
                   besselVars, ive_calls, ret>>

\* compute_KLD, lines 89-98: one turn of the loop, k_idx = len(rt_bag)
KLDLoop ==
    /\ pc = "kld_loop"
    /\ Len(rt_bag) < KLDBatch(tup.kappa, batch_sz)
    /\ LET k == KLDElement(tup.kappa, Len(rt_bag))
       IN  /\ rt_bag' = Append(rt_bag, KLDCombin(k, FInt(lat_dim), const))
           /\ ive_calls' = ive_calls \o KLDCalls(k, FInt(lat_dim))
    /\ UNCHANGED <<op, pc, lat_dim, batch_sz, tup, const, kld, bbrVars, cellVars,
                   swVars, fpe, besselVars, ret>>

\* compute_KLD, line 99
KLDReturn ==
    /\ pc = "kld_loop"
    /\ Len(rt_bag) >= KLDBatch(tup.kappa, batch_sz)
    /\ kld' = rt_bag
    /\ IF op = "compute_KLD"
       THEN pc' = "done" /\ ret' = Returns(rt_bag)
       ELSE pc' = "bbr_branch" /\ ret' = ret
    /\ UNCHANGED <<op, lat_dim, batch_sz, tup, const, rt_bag, bbrVars, cellVars,
                   swVars, fpe, besselVars, ive_calls>>

\* build_bow_rep, lines 109-112
BuildBranch ==
    /\ pc = "bbr_branch"
    /\ vecs' = <<>>
    /\ n' = 0
    /\ pc' = IF n_sample = 1 THEN "sc_start" ELSE "bbr_for"
    /\ UNCHANGED <<op, lat_dim, batch_sz, tup, lat_code, n_sample, cells, kldVars,
                   cellVars, swVars, fpe, besselVars, ive_calls, ret>>

\* build_bow_rep, lines 113-114: a turn of the loop calls sample_cell
BuildFor ==
    /\ pc = "bbr_for"
    /\ n < RangeLen(n_sample)
    /\ pc' = "sc_start"
    /\ UNCHANGED <<op, lat_dim, batch_sz, tup, bbrVars, kldVars, cellVars, swVars,
                   fpe, besselVars, ive_calls, ret>>

\* build_bow_rep, lines 116-117: torch.cat raises on an empty list
BuildCat ==
    /\ pc = "bbr_for"
    /\ n >= RangeLen(n_sample)
    /\ ret' = IF vecs = <<>> THEN Raises("RuntimeError")
              ELSE Returns(<<tup, kld, TorchCat(vecs)>>)
    /\ pc' = "done"
    /\ UNCHANGED <<op, lat_dim, batch_sz, tup, bbrVars, kldVars, cellVars, swVars,
                   fpe, besselVars, ive_calls>>

\* ------------------------------------------------------------------------
\* sample_cell and _sample_weight_batch
\* ------------------------------------------------------------------------
\* sample_cell, lines 120-123, and _sample_weight_batch, line 139
CellStart ==
    /\ pc = "sc_start"
    /\ mu' = NormalizeRows(tup.mu)
    /\ result' = [i \in 1..Len(tup.mu) |-> Fin(0)]
    /\ b_idx' = 0
    /\ pc' = "swb_loop"
    /\ UNCHANGED <<op, lat_dim, batch_sz, tup, bbrVars, kldVars, v_draw, ortho,
                   sampled_vec, swVars, fpe, besselVars, ive_calls, ret>>

\* _sample_weight_batch, lines 140-141: the call of _sample_weight
WeightBatchCall ==
    /\ pc = "swb_loop"
    /\ b_idx < Len(result)
    /\ kappa' = WeightBatchKappa(tup.kappa, b_idx)
    /\ dim' = lat_dim
    /\ pc' = "sw_setup"
    /\ UNCHANGED <<op, lat_dim, batch_sz, tup, bbrVars, kldVars, cellVars,
                   b, x, c, z, w, u, rejected, fpe, besselVars, ive_calls, ret>>

\* _sample_weight_batch, line 142
WeightBatchReturn ==
    /\ pc = "swb_loop"
    /\ b_idx >= Len(result)
    /\ pc' = "sc_ortho"
    /\ UNCHANGED <<op, lat_dim, batch_sz, tup, bbrVars, kldVars, cellVars, swVars,
                   fpe, besselVars, ive_calls, ret>>

\* sample_cell, line 128: _sample_ortho_batch
CellOrtho ==
    /\ pc = "sc_ortho"
    /\ \E v \in RandnDraws(Len(mu), lat_dim) :
          /\ v_draw' = v
          /\ ortho' = SampleOrthoBatch(mu, v)
    /\ pc' = "sc_combine"
    /\ UNCHANGED <<op, lat_dim, batch_sz, tup, bbrVars, kldVars, mu, result, b_idx,
                   sampled_vec, swVars, fpe, besselVars, ive_calls, ret>>

\* sample_cell, lines 124-135
CellCombine ==
    /\ pc = "sc_combine"
    /\ sampled_vec' = SampledVec(mu, ortho, WVar(result, Len(mu), lat_dim))
    /\ pc' = "sc_return"
    /\ UNCHANGED <<op, lat_dim, batch_sz, tup, bbrVars, kldVars, mu, result, b_idx,
                   v_draw, ortho, swVars, fpe, besselVars, ive_calls, ret>>

\* The return of sample_cell to build_bow_rep: line 112 when n_sample = 1,
\* lines 114-115 otherwise.
CellReturn ==
    /\ pc = "sc_return"
    /\ cells' = Append(cells, sampled_vec)
    /\ IF n_sample = 1
       THEN /\ ret' = Returns(<<tup, kld, sampled_vec>>)
            /\ pc' = "done"
            /\ UNCHANGED <<vecs, n>>
       ELSE /\ vecs' = Append(vecs, sampled_vec)
            /\ n' = n + 1
            /\ pc' = "bbr_for"
            /\ ret' = ret
    /\ mu' = <<>> /\ result' = <<>> /\ b_idx' = 0
    /\ v_draw' = <<>> /\ ortho' = <<>> /\ sampled_vec' = <<>>
    /\ UNCHANGED <<op, lat_dim, batch_sz, tup, lat_code, n_sample, kldVars, swVars,
                   fpe, besselVars, ive_calls>>

\* ------------------------------------------------------------------------
\* _sample_weight
\* ------------------------------------------------------------------------
\* lines 148-153
WeightSetup ==
    /\ pc = "sw_setup"
    /\ dim' = dim - 1
    /\ b' = SWb(kappa, dim - 1)
    /\ x' = SWx(SWb(kappa, dim - 1))
    /\ c' = SWc(kappa, dim - 1, SWx(SWb(kappa, dim - 1)))
    /\ fpe' = fpe \cup SWSetupFlags(kappa, dim - 1)
    /\ rejected' = FALSE
    /\ pc' = "sw_loop"
    /\ UNCHANGED <<op, lat_dim, batch_sz, tup, bbrVars, kldVars, cellVars, kappa,
                   z, w, u, besselVars, ive_calls, ret>>

\* line 156, when np.random.beta raises: the exception leaves every caller
WeightBetaRaises ==
    /\ pc = "sw_loop"
    /\ BetaRaises(dim)
    /\ ret' = Raises("ValueError")
    /\ pc' = "done"
    /\ UNCHANGED <<op, lat_dim, batch_sz, tup, bbrVars, kldVars, cellVars, swVars,
                   fpe, besselVars, ive_calls>>

\* lines 156-159: an iteration whose test fails
WeightReject ==
    /\ pc = "sw_loop"
    /\ ~BetaRaises(dim)
    /\ \E zz \in ZVals, uu \in UVals :
          /\ ~SWAccepts(kappa, dim, x, c, SWWeight(b, zz), uu)
          /\ z' = zz
          /\ w' = SWWeight(b, zz)
          /\ u' = uu
    /\ rejected' = TRUE
    /\ UNCHANGED <<op, pc, lat_dim, batch_sz, tup, bbrVars, kldVars, cellVars,
                   kappa, dim, b, x, c, fpe, besselVars, ive_calls, ret>>

\* lines 156-161: an iteration whose test passes
WeightAccept ==
    /\ pc = "sw_loop"
    /\ ~BetaRaises(dim)
    /\ \E zz \in ZVals, uu \in UVals :
          /\ SWAccepts(kappa, dim, x, c, SWWeight(b, zz), uu)
          /\ z' = zz
          /\ w' = SWWeight(b, zz)
          /\ u' = uu
    /\ pc' = "sw_return"
    /\ UNCHANGED <<op, lat_dim, batch_sz, tup, bbrVars, kldVars, cellVars,
                   kappa, dim, b, x, c, rejected, fpe, besselVars, ive_calls, ret>>

\* line 161 seen from the caller: the entry point's result, or line 141
WeightReturn ==
    /\ pc = "sw_return"
    /\ IF op = "_sample_weight"
       THEN /\ ret' = Returns(w)
            /\ pc' = "done"
            /\ UNCHANGED <<result, b_idx>>
       ELSE /\ result' = [result EXCEPT ![b_idx + 1] = w]
            /\ b_idx' = b_idx + 1
            /\ pc' = "swb_loop"
            /\ ret' = ret
    /\ kappa' = None /\ dim' = -1
    /\ b' = None /\ x' = None /\ c' = None
    /\ z' = None /\ w' = None /\ u' = None
    /\ rejected' = FALSE
    /\ UNCHANGED <<op, lat_dim, batch_sz, tup, bbrVars, kldVars, mu, v_draw, ortho,
                   sampled_vec, fpe, besselVars, ive_calls>>

Next ==
    \/ BesselApply
    \/ BesselBackwardPass
    \/ BuildEstimate
    \/ KLDStart
    \/ KLDLoop
    \/ KLDReturn
    \/ BuildBranch
    \/ BuildFor
    \/ BuildCat
    \/ CellStart
    \/ WeightBatchCall
    \/ WeightBatchReturn
    \/ CellOrtho
    \/ CellCombine
    \/ CellReturn
    \/ WeightSetup
    \/ WeightBetaRaises
    \/ WeightReject
    \/ WeightAccept
    \/ WeightReturn

Spec == Init /\ [][Next]_vars

\* The draws are fair: while the loop runs, an accepting draw that stays
\* possible is eventually made.
FairSpec == Spec /\ WF_vars(WeightAccept)

\* ------------------------------------------------------------------------
\* Properties
\* ------------------------------------------------------------------------
\* What "within floating-point tolerance" is here: rounding accumulated
\* over one normalisation or combination, 1/64.
Tol == Scale \div 64

Near(a, target) == IsFin(a) /\ Abs(a[2] - target) <= Tol

\* A row of L2 norm 1, and two rows that are unit and orthogonal.
IsUnit(row) == Near(VDot(row, row), Scale)

Orthonormal(r1, r2) == IsUnit(r1) /\ IsUnit(r2) /\ Near(VDot(r1, r2), 0)

\* The shape (n1, n2, n3) of a tensor held as nested sequences.
HasShape(t, n1, n2, n3) ==
    /\ Len(t) = n1
    /\ \A s \in 1..n1 :
          /\ Len(t[s]) = n2
          /\ \A i \in 1..n2 : Len(t[s][i]) = n3

BuildDone == op = "build_bow_rep" /\ pc = "done"

\* What build_bow_rep returns for a count n_sample: the dict, the KL tensor
\* and the samples of n_sample calls of sample_cell, in call order.
BuildReturnsSamples ==
    /\ ret.kind = "value"
    /\ ret.val[1] = tup
    /\ ret.val[2] = kld
    /\ Len(cells) = n_sample
    /\ ret.val[3] = IF n_sample = 1 THEN cells[1] ELSE TorchCat(cells)
    /\ HasShape(ret.val[3], n_sample, Len(lat_code), lat_dim)

\* C1 as claimed: for every requested sample count n, build_bow_rep returns
\* the parameter dict, the KL tensor and, as its third result, the result of
\* one sample_cell call when n = 1 and otherwise n sample_cell results
\* concatenated along the leading axis, of shape (n, batch_sz, lat_dim).
C1_EveryCount == BuildDone => BuildReturnsSamples

\* C1, amended: the above for every sample count n >= 1; for n <= 0 no
\* sample is drawn and torch.cat of the empty list raises.
C1_PositiveCount ==
    BuildDone =>
        /\ n_sample >= 1 => BuildReturnsSamples
        /\ n_sample <= 0 => (ret = Raises("RuntimeError") /\ cells = <<>>)

C1_Witness ==
    /\ BuildDone
    /\ n_sample = 2
    /\ Len(lat_code) = 2
    /\ ret.kind = "value"
    /\ cells[1] # cells[2]

\* The rejection loop runs on valid inputs: kappa > 0 and dim >= 2.
WeightValid == IsFin(kappa) /\ kappa[2] > 0 /\ dim >= 1

\* C2: for kappa > 0 and dim >= 2 the rejection loop of _sample_weight
\* terminates under fair draws: from every state of the loop an iteration
\* whose test passes is eventually reached and its weight is returned.
C2_LoopTerminates == (pc = "sw_loop" /\ WeightValid) ~> (pc = "sw_return")

C2_Witness ==
    /\ op = "build_bow_rep"
    /\ pc = "sw_return"
    /\ WeightValid
    /\ rejected

\* C3: every weight _sample_weight returns for kappa > 0 and dim >= 2 lies
\* strictly inside (-1, 1).
C3_WeightInOpenInterval ==
    (pc = "sw_return" /\ WeightValid) =>
        /\ IsFin(w)
        /\ -Scale < w[2]
        /\ w[2] < Scale

C3_Witness ==
    /\ pc = "sw_return"
    /\ WeightValid
    /\ IsFin(w)
    /\ w[2] < 0

\* C4: every row of the mean direction 'mu' that estimate_param returns has
\* L2 norm 1 within tolerance.
C4_MuUnitNorm ==
    (op = "build_bow_rep" /\ pc # "bbr_estimate") =>
        \A i \in 1..Len(tup.mu) : IsUnit(tup.mu[i])

\* The KL value of one example, from its concentration k and d alone.
KLValue(k, d) ==
    LET half   == FDiv(FInt(d), FInt(2))
        lower  == Ive(FSub(half, One), k)
        first  == FDiv(FMul(k, Ive(half, k)), lower)
        second == FSub(FMul(FSub(half, One), FLog(k)), FLog(lower))
    IN  FAdd(FAdd(first, second), KLDConst(d))

\* C5: compute_KLD returns one KL value per example, in batch order; the
\* value at index i is first + second + const computed from kappa[i] and d
\* alone, whatever mu, the other examples and the batch_sz argument are.
C5_KLDPerExample ==
    (pc = "done" /\ op = "compute_KLD") =>
        /\ ret.kind = "value"
        /\ Len(ret.val) = Len(tup.kappa)
        /\ \A i \in 1..Len(tup.kappa) :
              ret.val[i] = KLValue(tup.kappa[i][1], lat_dim)

C5_Witness ==
    /\ pc = "done"
    /\ op = "compute_KLD"
    /\ Len(tup.kappa) = 2
    /\ batch_sz # 2
    /\ ret.val[1] # ret.val[2]

\* C6: for every batch of mean directions, the result of
\* _sample_ortho_batch has one row per example and row i is a unit vector
\* orthogonal to mu[i], within tolerance.
C6_OrthoUnitOrthogonal ==
    (pc = "sc_combine" /\ \A i \in 1..Len(mu) : IsUnit(mu[i])) =>
        /\ Len(ortho) = Len(mu)
        /\ \A i \in 1..Len(mu) : Orthonormal(ortho[i], mu[i])

WeightDegenerate == kappa = Fin(0) \/ dim = 0

\* C7 as claimed: called with kappa = 0 or dim' = 0, _sample_weight divides
\* by zero, the failure surfaces as a NaN or Inf value, and no exception is
\* raised.
C7_DegenerateYieldsNaN ==
    (op = "_sample_weight" /\ pc \in {"sw_return", "done"} /\ WeightDegenerate) =>
        /\ fpe # {}
        /\ ret.kind # "raise"
        /\ pc = "sw_return" => ~IsFin(w)

\* C7, amended: with kappa = 0 and dim' >= 1 nothing is divided by zero
\* (b = 1, x = 0, c = 0), the first iteration is accepted and the finite
\* weight 1 - 2z is returned; with dim' = 0 the computation of b, x and c
\* raises nothing (log(0), or 0/0 when kappa = 0 too, is only flagged), and
\* then np.random.beta raises ValueError, so that no weight is returned.
C7_DegenerateCases ==
    op = "_sample_weight" =>
        /\ (pc \in {"sw_loop", "sw_return"} /\ kappa = Fin(0) /\ dim >= 1) =>
              /\ fpe = {}
              /\ b = One /\ x = Fin(0) /\ c = Fin(0)
              /\ ~rejected
              /\ pc = "sw_return" => w = FSub(One, FMul(FInt(2), z))
        /\ dim = 0 =>
              /\ pc \in {"sw_loop", "done"}
              /\ fpe # {}
              /\ pc = "done" => ret = Raises("ValueError")

C7_Witness ==
    /\ op = "_sample_weight"
    /\ pc = "sw_return"
    /\ kappa = Fin(0)
    /\ IsFin(w)
    /\ w[2] < 0

\* The acceptance test of one iteration, on that iteration's w and u.
TestHolds(w_, u_) ==
    FGe(FSub(FAdd(FMul(kappa, w_),
                  FMul(FInt(dim), FLog(FSub(One, FMul(x, w_))))), c),
        FLog(u_))

\* C8: in _sample_weight b, x and c are computed once from kappa and dim'
\* and stay as they are through the loop; an iteration draws z and u, and a
\* weight is returned only in an iteration whose test holds for its own w
\* and u; a rejected iteration returns nothing and changes nothing but the
\* loop's own z, w and u.
C8_LoopDiscipline ==
    [][ pc = "sw_loop" =>
          /\ b = SWb(kappa, dim) /\ x = SWx(b) /\ c = SWc(kappa, dim, x)
          /\ b' = b /\ x' = x /\ c' = c
          /\ pc' = "sw_return" =>
                /\ z' \in ZVals /\ u' \in UVals
                /\ w' = SWWeight(b, z')
                /\ TestHolds(w', u')
                /\ ret' = ret /\ result' = result
          /\ pc' = "sw_loop" =>
                /\ z' \in ZVals /\ u' \in UVals
                /\ w' = SWWeight(b, z')
                /\ ~TestHolds(w', u')
                /\ UNCHANGED <<op, lat_dim, batch_sz, tup, bbrVars, kldVars,
                               cellVars, kappa, dim, fpe, besselVars,
                               ive_calls, ret>>
      ]_vars

C8_Witness ==
    /\ op = "_sample_weight"
    /\ pc = "sw_return"
    /\ dim >= 2
    /\ rejected

\* C9: sample_cell draws one weight per example, with the example's own
\* kappa[i], and returns for each example i the row
\* ortho[i] * sqrt(1 - w[i]^2) + mu[i] * w[i], w[i] broadcast across the
\* latent dimension; where ortho[i] and mu[i] are orthonormal the row has
\* L2 norm 1.
C9_SampleCell ==
    pc = "sc_return" =>
        /\ HasShape(sampled_vec, 1, Len(tup.mu), lat_dim)
        /\ Len(result) = Len(tup.mu)
        /\ \A i \in 1..Len(tup.mu) :
              /\ \E zz \in ZVals :
                    result[i] = SWWeight(SWb(tup.kappa[i][1], lat_dim - 1), zz)
              /\ \A j \in 1..lat_dim :
                    sampled_vec[1][i][j] =
                        FAdd(FMul(ortho[i][j],
                                  FSqrt(FSub(One, FMul(result[i], result[i])))),
                             FMul(mu[i][j], result[i]))
              /\ Orthonormal(ortho[i], mu[i]) => IsUnit(sampled_vec[1][i])

C9_Witness ==
    /\ pc = "sc_return"
    /\ Len(mu) = 2
    /\ result[1] # result[2]
    /\ Orthonormal(ortho[1], mu[1])
    /\ Orthonormal(ortho[2], mu[2])

\* C10: BesselIve.backward returns None for the order and, for the
\* argument, grad_output * (Bessel(order - 1, kappa)
\* - Bessel(order, kappa) * (order + kappa) / kappa); it evaluates sp.ive
\* twice more, at order - 1 and then at order, and the context it reads
\* holds the inputs of forward only, not its output.
C10_Backward ==
    (op = "bessel" /\ pc = "done") =>
        LET order == bargs[1]
            k     == bargs[2]
            lower == FSub(order, One)
        IN  /\ ret.kind = "value"
            /\ ret.val[1] = None
            /\ ret.val[2] =
                  FMul(grad_output,
                       FSub(Ive(lower, k),
                            FDiv(FMul(Ive(order, k), FAdd(order, k)), k)))
            /\ ctx = <<order, k>>
            /\ ive_calls = << <<order, k>>, <<lower, k>>, <<order, k>> >>

C10_Witness ==
    /\ op = "bessel"
    /\ pc = "done"
    /\ IsFin(ret.val[2])
    /\ ret.val[2][2] < 0
====
